---- MODULE Spec2Model ----
(***************************************************************************)
(* Model of mbox_to_imap.py: main() uploads the messages of an mbox file   *)
(* to an IMAP folder.  One run of main() is one behaviour.  The IMAP       *)
(* server, the file system and the operator's answers are the environment: *)
(* every response they can give is drawn with \E in the action that        *)
(* consumes it.                                                            *)
(***************************************************************************)
EXTENDS Integers, Sequences, FiniteSets, TLC

(* ---------------------------- bounds ---------------------------------- *)
\* largest number of messages in the mbox file
MaxMsgs == 3
\* largest number of items in the response data of a create request
\* (imaplib hands back the text of the tagged response as a one-item list)
MaxData == 1
\* in the runs over a long archive: the number of messages beyond the
\* progress interval, and the largest number of passes that fail
Extra == 1
MaxFaults == 1

(* ----------------------- program constants ---------------------------- *)
PROGRESS_INTERVAL == 50

(* ------------------------------ text ---------------------------------- *)
\* A text is a sequence of one-character strings.
UpperChars == <<"A","B","C","D","E","F","G","H","I","J","K","L","M",
                "N","O","P","Q","R","S","T","U","V","W","X","Y","Z">>
LowerChars == <<"a","b","c","d","e","f","g","h","i","j","k","l","m",
                "n","o","p","q","r","s","t","u","v","w","x","y","z">>

\* str.lower() on one character
LowerChar(c) ==
    IF \E k \in 1..Len(UpperChars) : UpperChars[k] = c
    THEN LowerChars[CHOOSE k \in 1..Len(UpperChars) : UpperChars[k] = c]
    ELSE c

\* str.lower()
Lower(t) == [k \in 1..Len(t) |-> LowerChar(t[k])]

\* needle in hay
Contains(hay, needle) ==
    \E k \in 1..(Len(hay) - Len(needle) + 1) :
        SubSeq(hay, k, k + Len(needle) - 1) = needle

\* the literal as it would be if it were "exist"
ExistsWord_Short == <<"e","x","i","s","t">>

\* the literal "exists" of lines 137 and 144
ExistsWord == <<"e","x","i","s","t","s">>

\* str(b) / repr(b) of a bytes object: b'...'
BytesRepr(t) == <<"b","'">> \o t \o <<"'">>

RECURSIVE JoinRepr(_)
\* the items of a list of bytes as Python prints them, joined by ", "
JoinRepr(data) ==
    IF Len(data) = 0 THEN <<>>
    ELSE IF Len(data) = 1 THEN BytesRepr(data[1])
    ELSE BytesRepr(data[1]) \o <<",", " ">> \o JoinRepr(Tail(data))

\* f"{data}" of a list of bytes
ListRepr(data) == <<"[">> \o JoinRepr(data) \o <<"]">>

\* the message of the error raised at line 141
FailedPrefix == <<"F","a","i","l","e","d"," ","t","o"," ","c","r","e","a","t","e",
                  "/","v","e","r","i","f","y"," ","f","o","l","d","e","r",":"," ">>

\* server texts the create request can come back with
TxtALREADY   == <<"[","A","L","R","E","A","D","Y","E","X","I","S","T","S","]">>
TxtNoExist   == <<"d","o","e","s"," ","n","o","t"," ","e","x","i","s","t">>
TxtDenied    == <<"P","e","r","m","i","s","s","i","o","n"," ","d","e","n","i","e","d">>
Texts == {TxtALREADY, TxtNoExist, TxtDenied}

RECURSIVE SeqsUpTo(_, _)
\* the non-empty sequences over S of length at most n
SeqsUpTo(S, n) ==
    IF n = 0 THEN {}
    ELSE LET shorter == SeqsUpTo(S, n - 1)
         IN  {<<s>> : s \in S} \cup shorter \cup
             {Append(q, s) : q \in shorter, s \in S}

(* ---------------------------- messages -------------------------------- *)
\* what a stored message is made of here: its bytes as they stand in the
\* mbox file (one header line stands for them) and what its Date header is
PayA == <<"S",":"," ","a">>
PayB == <<"S",":","b">>
PayC == <<"S",":"," ","c">>
PayD == <<"S",":","d">>
Payloads == {PayA, PayB, PayC, PayD}
DateHeaders == {"missing", "empty", "unparseable", "good"}
Messages == {[payload |-> PayA, date |-> "missing"],
             [payload |-> PayB, date |-> "good"],
             [payload |-> PayC, date |-> "unparseable"],
             [payload |-> PayD, date |-> "empty"]}

RECURSIVE Archives(_)
\* the mbox files of at most n messages
Archives(n) ==
    IF n = 0 THEN {<<>>}
    ELSE LET shorter == Archives(n - 1)
         IN  shorter \cup {Append(a, m) : a \in {b \in shorter : Len(b) = n - 1},
                                           m \in Messages}

\* lines 66-75: the body of get_message_date without its handler: None for
\* a header that is not there or empty, an exception out of
\* parsedate_to_datetime / mktime / Time2Internaldate for one that does not
\* parse, the internal date otherwise
DateAttempt(d) ==
    CASE d \in {"missing", "empty"} -> "None"
      [] d = "unparseable" -> "raise"
      [] OTHER -> "internaldate"

\* get_message_date as it would be without the handler of lines 76-78
get_message_date_NoHandler(msg) == DateAttempt(msg.date)

\* lines 64-78: get_message_date(msg), None when the attempt raises
get_message_date(msg) ==
    IF DateAttempt(msg.date) = "raise" THEN "None" ELSE DateAttempt(msg.date)

(* ------------------------------ state --------------------------------- *)
VARIABLES
    pc,              \* where main() is
    mbox,            \* the messages of the mbox file on disk
    server,          \* TRUE once the IMAP4 object is bound (None before)
    total_messages,
    uploaded_count,
    error_count,
    message_list,    \* list(mbox), empty before line 156
    i,               \* number of messages the loop has handled
    createResult,    \* what server.create() came back with
    loginResult,     \* what server.login() came back with
    calls,           \* session primitives invoked, in order
    appendLog,       \* arguments and result of every server.append() call
    handled,         \* per handled message, how its loop body ended
    slept,           \* per handled message, whether line 185 ran
    output,          \* the events printed
    pending,         \* "SystemExit" while sys.exit(1) unwinds through finally
    logoutResult,    \* what server.logout() came back with
    exitStatus       \* process exit status, -1 while running

vars == <<pc, mbox, server, total_messages, uploaded_count, error_count,
          message_list, i, createResult, loginResult, calls, appendLog,
          handled, slept, output, pending, logoutResult, exitStatus>>

NoResult == [kind |-> "none", data |-> <<>>]

\* the start of the run as it would be if the archive were counted first
Init_TotalAtStart ==
    /\ pc = "start"
    /\ mbox \in Archives(MaxMsgs)
    /\ server = FALSE
    /\ total_messages = Len(mbox)
    /\ uploaded_count = 0
    /\ error_count = 0
    /\ message_list = <<>>
    /\ i = 0
    /\ createResult = NoResult
    /\ loginResult = "none"
    /\ calls = <<>>
    /\ appendLog = <<>>
    /\ handled = <<>>
    /\ slept = <<>>
    /\ output = <<>>
    /\ pending = "none"
    /\ logoutResult = "none"
    /\ exitStatus = -1

\* lines 83-107: the state main() starts from
Init ==
    /\ pc = "start"
    /\ mbox \in Archives(MaxMsgs)
    /\ server = FALSE
    /\ total_messages = 0
    /\ uploaded_count = 0
    /\ error_count = 0
    /\ message_list = <<>>
    /\ i = 0
    /\ createResult = NoResult
    /\ loginResult = "none"
    /\ calls = <<>>
    /\ appendLog = <<>>
    /\ handled = <<>>
    /\ slept = <<>>
    /\ output = <<>>
    /\ pending = "none"
    /\ logoutResult = "none"
    /\ exitStatus = -1


(* ----------------------------- helpers -------------------------------- *)
\* a printed line: what it reports, the message number it is about (0 when
\* about none) and the counters it shows or could show
Event(what, num, up, err) ==
    [ev |-> what, num |-> num, total |-> total_messages,
     uploaded |-> up, errors |-> err]

\* control leaves the try block through one of the except clauses of
\* lines 197-206, which print and fall through to finally
Caught(what) ==
    /\ output' = Append(output, Event(what, 0, uploaded_count, error_count))
    /\ pc' = "finally"
    /\ pending' = pending

\* sys.exit(1) as it would go if an except clause of main() took SystemExit
SysExitInTry_Swallowed(what) == Caught(what)

\* sys.exit(1) inside the try block: SystemExit is no Exception, so no
\* except clause takes it; finally runs and the exit goes on
SysExitInTry(what) ==
    /\ output' = Append(output, Event(what, 0, uploaded_count, error_count))
    /\ pc' = "finally"
    /\ pending' = "SystemExit"

(* ----------------------------- actions -------------------------------- *)
\* lines 83-88: the mbox path is asked for and must name a file
CheckMboxPath ==
    /\ pc = "start"
    /\ \E isfile \in BOOLEAN :
         IF isfile
         THEN /\ pc' = "details"
              /\ UNCHANGED <<output, exitStatus>>
         ELSE /\ pc' = "exited"
              /\ output' = Append(output, Event("mbox not found", 0, uploaded_count, error_count))
              /\ exitStatus' = 1
    /\ UNCHANGED <<logoutResult, mbox, server, total_messages, uploaded_count, error_count,
                   message_list, i, createResult, loginResult, calls,
                   appendLog, handled, slept, pending>>

\* lines 90-107: the connection details are asked for and must all be there
GetImapDetails ==
    /\ pc = "details"
    /\ \E complete \in BOOLEAN :
         IF complete
         THEN /\ pc' = "connect"
              /\ UNCHANGED <<output, exitStatus>>
         ELSE /\ pc' = "exited"
              /\ output' = Append(output, Event("missing details", 0, uploaded_count, error_count))
              /\ exitStatus' = 1
    /\ UNCHANGED <<logoutResult, mbox, server, total_messages, uploaded_count, error_count,
                   message_list, i, createResult, loginResult, calls,
                   appendLog, handled, slept, pending>>

\* what the IMAP4 / IMAP4_SSL constructor can do
ConnectResults == {"connected", "gaierror", "IMAP4.error", "Exception"}

\* lines 109-115
Connect ==
    /\ pc = "connect"
    /\ calls' = Append(calls, "connect")
    /\ \E r \in ConnectResults :
         IF r = "connected"
         THEN /\ server' = TRUE
              /\ pc' = "login"
              /\ UNCHANGED <<output, pending>>
         ELSE /\ server' = FALSE
              /\ Caught(r)
    /\ UNCHANGED <<logoutResult, mbox, total_messages, uploaded_count, error_count,
                   message_list, i, createResult, loginResult,
                   appendLog, handled, slept, exitStatus>>

\* what server.login() can do: return a status, raise IMAP4.error, or raise
\* something else
LoginResults == {"OK", "NO", "IMAP4.error", "Exception"}

\* lines 117-128
Login ==
    /\ pc = "login"
    /\ calls' = Append(calls, "login")
    /\ \E r \in LoginResults :
         /\ loginResult' = r
         /\ CASE r = "OK" ->
                   /\ pc' = "create"
                   /\ UNCHANGED <<output, pending>>
              [] r \in {"NO", "IMAP4.error"} -> SysExitInTry("login failed")
              [] OTHER -> Caught(r)
    /\ UNCHANGED <<logoutResult, mbox, server, total_messages, uploaded_count, error_count,
                   message_list, i, createResult,
                   appendLog, handled, slept, exitStatus>>


\* what server.create() can do: return OK or NO with response data, raise
\* IMAP4.error with a message, or raise something else
CreateResults ==
    {[kind |-> "OK", data |-> <<>>]}
    \cup [kind : {"NO"}, data : SeqsUpTo(Texts, MaxData)]
    \cup [kind : {"IMAP4.error", "Exception"}, data : {<<t>> : t \in Texts}]

\* line 137: "exists" in str(data[0]).lower()
DataSaysExists(data) == Contains(Lower(BytesRepr(data[1])), ExistsWord)

\* line 141: the message of the error raised for a NO that is not "exists"
RaisedText(data) == FailedPrefix \o ListRepr(data)

\* line 144 as it would be without .lower()
ErrorSaysExists_CaseSensitive(text) == Contains(text, ExistsWord)

\* line 144, negated: "exists" in str(e).lower()
ErrorSaysExists(text) == Contains(Lower(text), ExistsWord)

\* the block as it would end if every failure of create were passed over
CreateOutcome_Lenient(r) == "ready"

\* lines 132-148: how the block ends for one result of server.create():
\* "ready" falls through to line 151, "exit" is sys.exit(1), "raise" leaves
\* the block with an exception that is no IMAP4.error
CreateOutcome(r) ==
    CASE r.kind = "OK" -> "ready"
      [] r.kind = "NO" ->
            IF DataSaysExists(r.data) THEN "ready"
            ELSE IF ErrorSaysExists(RaisedText(r.data)) THEN "ready"
            ELSE "exit"
      [] r.kind = "IMAP4.error" ->
            IF ErrorSaysExists(r.data[1]) THEN "ready" ELSE "exit"
      [] OTHER -> "raise"

\* lines 130-148
Create ==
    /\ pc = "create"
    /\ calls' = Append(calls, "create")
    /\ \E r \in CreateResults :
         /\ createResult' = r
         /\ CASE CreateOutcome(r) = "ready" ->
                   /\ pc' = "open"
                   /\ UNCHANGED <<output, pending>>
              [] CreateOutcome(r) = "exit" -> SysExitInTry("create failed")
              [] OTHER -> Caught(r.kind)
    /\ UNCHANGED <<logoutResult, mbox, server, total_messages, uploaded_count, error_count,
                   message_list, i, loginResult,
                   appendLog, handled, slept, exitStatus>>

\* what opening and reading the mbox file can do
OpenResults == {"read", "FileNotFoundError", "Exception"}

\* lines 151-158
OpenMbox ==
    /\ pc = "open"
    /\ \E r \in OpenResults :
         IF r = "read"
         THEN /\ message_list' = mbox
              /\ total_messages' = Len(mbox)
              /\ output' = Append(output, [Event("found", 0, uploaded_count,
                                 error_count) EXCEPT !.total = Len(mbox)])
              /\ pc' = "loop"
              /\ UNCHANGED pending
         ELSE /\ UNCHANGED <<message_list, total_messages>>
              /\ Caught(r)
    /\ UNCHANGED <<logoutResult, mbox, server, uploaded_count, error_count, i, createResult,
                   loginResult, calls, appendLog, handled, slept, exitStatus>>


\* the place of the colon that ends the header name
ColonAt(t) == CHOOSE k \in 1..Len(t) : t[k] = ":" /\ \A j \in 1..(k - 1) : t[j] # ":"

RECURSIVE LStrip(_)
\* a header value without the blanks in front of it
LStrip(t) == IF t # <<>> /\ Head(t) = " " THEN LStrip(Tail(t)) ELSE t

\* line 164: msg.as_bytes(), when it returns: the message is written out
\* anew from its parsed form, every header as "name: value"
as_bytes(msg) ==
    LET p == msg.payload
        c == ColonAt(p)
    IN  SubSeq(p, 1, c) \o <<" ">> \o LStrip(SubSeq(p, c + 1, Len(p)))

\* how one pass through the loop body can go: msg.as_bytes() raises, or
\* server.append() returns OK, returns NO, or raises
BodyResults == {"as_bytes raised", "OK", "NO", "append raised"}

\* lines 164-171: how the pass ends when the environment answers r: an
\* exception out of get_message_date (line 166) would end it before append
PassResult(r, date) ==
    IF r # "as_bytes raised" /\ date = "raise" THEN "date raised" ELSE r

\* the message taken if the list were walked from its end
MsgAt_Reversed(list, k) == list[Len(list) - k]

\* line 160: the message the loop takes after k messages were handled
MsgAt(list, k) == list[k + 1]

\* uploaded_count as it would be if every answered append counted
NewUploaded_AnyResponse(r, up) == IF r \in {"OK", "NO"} THEN up + 1 ELSE up

\* lines 176-177: uploaded_count after a pass that ended as r
NewUploaded(r, up) == IF r = "OK" THEN up + 1 ELSE up

\* error_count as it would be if only the else branch of line 180 counted
NewErrors_ResponsesOnly(r, err) == IF r = "NO" THEN err + 1 ELSE err

\* lines 180-181 and 187-188: error_count after a pass that ended as r
NewErrors(r, err) == IF r = "OK" THEN err ELSE err + 1

\* the condition as it would be if only the last message were reported
ProgressDue_LastOnly(up, num, total) == num = total

\* line 178: the condition under which a progress line is printed
ProgressDue(up, num, total) == up % PROGRESS_INTERVAL = 0 \/ num = total

\* lines 176-185: line 185 is reached when server.append() returned
SleepReached(r) == r \in {"OK", "NO"}

\* the index as it would move if a raising append were tried again
NextIndex_RetryOnFault(r, k) == IF r = "append raised" THEN k ELSE k + 1

\* line 160: enumerate moves to the next message however the pass ended
NextIndex(r, k) == k + 1

\* the pass as it would end if the session were set up anew after a fault
AfterPass_Reconnect(r) == IF r = "append raised" THEN "connect" ELSE "loop"

\* the pass as it would end if a raising append were let through
AfterPass_Abort(r) == IF r = "append raised" THEN "finally" ELSE "loop"

\* lines 187-190: the handler of the loop body ends the pass, not the loop
AfterPass(r) == "loop"

\* lines 160-190: one pass through the loop body, for message i + 1
UploadMessage ==
    /\ pc = "loop"
    /\ i < Len(message_list)
    /\ LET msg == MsgAt(message_list, i)
           current_msg_num == i + 1
       IN  \E env \in BodyResults :
           LET r == PassResult(env, get_message_date(msg)) IN
             /\ handled' = Append(handled, r)
             /\ IF r \in {"as_bytes raised", "date raised"}
                THEN UNCHANGED <<calls, appendLog>>
                ELSE /\ calls' = Append(calls, "append")
                     /\ appendLog' = Append(appendLog,
                            [num |-> current_msg_num, flags |-> "None",
                             date |-> get_message_date(msg),
                             bytes |-> as_bytes(msg), result |-> r])
             /\ uploaded_count' = NewUploaded(r, uploaded_count)
             /\ error_count' = NewErrors(r, error_count)
             /\ output' =
                  CASE r = "OK" ->
                         IF ProgressDue(uploaded_count', current_msg_num,
                                        total_messages)
                         THEN Append(output, Event("progress", current_msg_num,
                                         uploaded_count', error_count'))
                         ELSE output
                    [] r = "NO" ->
                         Append(output, Event("error", current_msg_num,
                                    uploaded_count', error_count'))
                    [] OTHER ->
                         Append(output, Event("critical error", current_msg_num,
                                    uploaded_count', error_count'))
             /\ slept' = Append(slept, SleepReached(r))
             /\ pc' = AfterPass(r)
             /\ i' = NextIndex(r, i)
    /\ UNCHANGED <<logoutResult, mbox, server, total_messages, message_list, createResult,
                   loginResult, pending, exitStatus>>

\* the summary as it would read if line 194 printed total_messages
SummaryLine_TotalAsUploaded(total, up, err) ==
    [ev |-> "summary", num |-> 0, total |-> total, uploaded |-> total, errors |-> err]

\* lines 193-195: the three counters the summary shows
SummaryLine(total, up, err) ==
    [ev |-> "summary", num |-> 0, total |-> total, uploaded |-> up, errors |-> err]

\* lines 192-195: the loop is over, the summary is printed
PrintSummary ==
    /\ pc = "loop"
    /\ i = Len(message_list)
    /\ output' = Append(output, SummaryLine(total_messages, uploaded_count,
                                             error_count))
    /\ pc' = "finally"
    /\ UNCHANGED <<logoutResult, mbox, server, total_messages, uploaded_count, error_count,
                   message_list, i, createResult, loginResult, calls, appendLog,
                   handled, slept, pending, exitStatus>>

\* logout as it would be if it were the last statement of the try block
LogoutDue_NormalOnly(srv, pend) == srv /\ pend = "none"

\* line 210: logout is attempted when the server object is bound
LogoutDue(srv, pend) == srv

\* what server.logout() can do
LogoutResults == {"BYE", "Exception"}

\* what would unwind if the handler of lines 215-216 were not there
PendingAfterLogout_Uncaught(r, pend) == IF r = "Exception" THEN "Exception" ELSE pend

\* lines 211-216: an exception out of logout is caught and printed, so what
\* unwinds through finally is what unwound into it
PendingAfterLogout(r, pend) == pend

\* the exit status as it would be if error_count were turned into it
ExitCode_FailOnErrors(pend, err) == IF pend # "none" \/ err > 0 THEN 1 ELSE 0

\* lines 217-221: main() returns and the process ends with status 0, unless
\* an exit is unwinding: sys.exit(1) gives status 1
ExitCode(pend, err) == IF pend = "none" THEN 0 ELSE 1

\* lines 208-217, and the end of the process: logout when there is a server
\* object, whatever logout does the pending exit (if any) goes on
Finally ==
    /\ pc = "finally"
    /\ IF LogoutDue(server, pending)
       THEN /\ calls' = Append(calls, "logout")
            /\ \E r \in LogoutResults :
                 /\ logoutResult' = r
                 /\ output' = Append(output, Event(IF r = "BYE" THEN "logout successful"
                                                   ELSE "logout error",
                                                   0, uploaded_count, error_count))
       ELSE UNCHANGED <<calls, output, logoutResult>>
    /\ pending' = PendingAfterLogout(logoutResult', pending)
    /\ exitStatus' = ExitCode(pending', error_count)
    /\ pc' = "exited"
    /\ UNCHANGED <<mbox, server, total_messages, uploaded_count, error_count,
                   message_list, i, createResult, loginResult, appendLog,
                   handled, slept>>

Next ==
    \/ CheckMboxPath
    \/ GetImapDetails
    \/ Connect
    \/ Login
    \/ Create
    \/ OpenMbox
    \/ UploadMessage
    \/ PrintSummary
    \/ Finally

Spec == Init /\ [][Next]_vars

(* ------------------- runs over a long archive ------------------------- *)
\* an mbox file of n messages
LongArchive(n) == [k \in 1..n |-> [payload |-> PayA, date |-> "good"]]

\* the state main() starts from when the mbox file is longer than the
\* progress interval
InitLong ==
    /\ pc = "start"
    /\ mbox = LongArchive(PROGRESS_INTERVAL + Extra)
    /\ server = FALSE
    /\ total_messages = 0
    /\ uploaded_count = 0
    /\ error_count = 0
    /\ message_list = <<>>
    /\ i = 0
    /\ createResult = NoResult
    /\ loginResult = "none"
    /\ calls = <<>>
    /\ appendLog = <<>>
    /\ handled = <<>>
    /\ slept = <<>>
    /\ output = <<>>
    /\ pending = "none"
    /\ logoutResult = "none"
    /\ exitStatus = -1

\* the environment of these runs: create is answered OK or not at all, and
\* at most MaxFaults passes of the loop fail
LongEnv ==
    /\ createResult.kind \in {"none", "OK"}
    /\ error_count <= MaxFaults

NextLong ==
    \/ CheckMboxPath /\ LongEnv'
    \/ GetImapDetails /\ LongEnv'
    \/ Connect /\ LongEnv'
    \/ Login /\ LongEnv'
    \/ Create /\ LongEnv'
    \/ OpenMbox /\ LongEnv'
    \/ UploadMessage /\ LongEnv'
    \/ PrintSummary /\ LongEnv'
    \/ Finally /\ LongEnv'

SpecLong == InitLong /\ [][NextLong]_vars


(* ------------------------ vocabulary of the claims -------------------- *)
\* the events of a kind that were printed
Printed(kind) == {k \in 1..Len(output) : output[k].ev = kind}

\* the transfer loop was entered: line 158 printed the message count
LoopStarted == Printed("found") # {}

\* the transfer loop ran to its end: line 192 was reached
LoopCompleted == Printed("summary") # {}

\* the passes through the loop body that ended in a given way
Passes(ways) == {k \in 1..Len(handled) : handled[k] \in ways}

\* the append calls that came back in a given way
Appends(ways) == {k \in 1..Len(appendLog) : appendLog[k].result \in ways}

\* an append was invoked for message number n
Attempted(n) == \E k \in 1..Len(appendLog) : appendLog[k].num = n

\* "exists" in either case, letter by letter
ExistsAnyCase == <<{"e","E"}, {"x","X"}, {"i","I"}, {"s","S"}, {"t","T"}, {"s","S"}>>

\* a text that has "exists" in it, whatever the case of its letters
MentionsExists(t) ==
    \E k \in 1..(Len(t) - 5) : \A j \in 1..6 : t[k + j - 1] \in ExistsAnyCase[j]

\* the create request failed, as a response or as a protocol error
CreateFailed == createResult.kind \in {"NO", "IMAP4.error"}

\* the failure text of the create request says the folder exists
FailureSaysExists == \E k \in 1..Len(createResult.data) : MentionsExists(createResult.data[k])

(* ------------------------------ claims -------------------------------- *)
\* C1: once the transfer loop has started, an append that is rejected or
\* raises on message a never stops the run: when the loop has been left,
\* an append was invoked for every later message b (unless serialising b
\* itself raised, in which case b has no append outcome at all).
C1_FailureIsolation ==
    \A a \in Passes({"NO", "append raised"}) :
        pc # "loop" =>
            \A b \in (a + 1)..Len(message_list) :
                /\ b <= Len(handled)
                /\ handled[b] # "as_bytes raised" => Attempted(b)

\* a finished run in which an append failed and later appends were made
C1_Witness ==
    /\ pc = "exited"
    /\ \E a \in Passes({"append raised"}) : Attempted(a + 1)
    /\ \E a \in Passes({"NO"}) : Attempted(a + 1)

\* C2: succeeded + failed <= total in every state; neither counter ever
\* decreases; and once the transfer loop has completed,
\* succeeded + failed = total.
C2_CounterInvariant ==
    /\ [](/\ uploaded_count + error_count <= total_messages
          /\ LoopCompleted => uploaded_count + error_count = total_messages)
    /\ [][/\ uploaded_count' >= uploaded_count
          /\ error_count' >= error_count]_vars

\* a completed loop with both counters above zero
C2_Witness ==
    /\ LoopCompleted
    /\ uploaded_count > 0
    /\ error_count > 0
    /\ Passes({"append raised"}) # {}

\* C3: on every exit path after the server object was obtained, logout was
\* invoked on it before the run ended, and nothing was invoked after it.
C3_SessionRelease ==
    (pc = "exited" /\ server) =>
        /\ Len(calls) > 0
        /\ calls[Len(calls)] = "logout"

\* a run that ends by sys.exit(1) with the session logged out
C3_Witness ==
    /\ pc = "exited"
    /\ server
    /\ pending = "SystemExit"
    /\ calls[Len(calls)] = "logout"

\* the run ended on a fatal setup error
FatalSetupError ==
    \/ Printed("mbox not found") # {}
    \/ Printed("missing details") # {}
    \/ ("connect" \in {calls[k] : k \in 1..Len(calls)} /\ ~server)
    \/ loginResult \in {"NO", "IMAP4.error"}
    \/ (CreateFailed /\ ~FailureSaysExists)
    \/ Printed("FileNotFoundError") # {}

\* C4 as claimed: every fatal setup error ends the run with a non-zero exit
\* status and without any append.
C4_FatalSetupNonZero ==
    (pc = "exited" /\ FatalSetupError) =>
        /\ exitStatus # 0
        /\ appendLog = <<>>

C6_ArchiveOrder ==
    /\ \A k \in 1..Len(appendLog) :
          /\ appendLog[k].num \in 1..Len(mbox)
          /\ appendLog[k].bytes = as_bytes(mbox[appendLog[k].num])
    /\ \A k \in 1..(Len(appendLog) - 1) : appendLog[k].num < appendLog[k + 1].num

\* three appends of an archive whose messages differ
C6_Witness ==
    /\ Len(appendLog) = 3
    /\ mbox[1].payload # mbox[2].payload
    /\ mbox[2].payload # mbox[3].payload

\* C7: a create request that fails with a text that has "exists" in it, in
\* any case, as a NO response or as a raised IMAP4.error, leaves the run
\* exactly where a successful create leaves it: at the opening of the mbox
\* file, nothing printed, nothing pending, all else untouched.
C7_IdempotentProvisioning ==
    [][(pc = "create" /\ createResult'.kind \in {"OK", "NO", "IMAP4.error"}
           /\ (createResult'.kind = "OK"
                 \/ \E k \in 1..Len(createResult'.data) :
                        MentionsExists(createResult'.data[k])))
        => /\ pc' = "open"
           /\ calls' = Append(calls, "create")
           /\ UNCHANGED <<mbox, server, total_messages, uploaded_count,
                          error_count, message_list, i, loginResult, appendLog,
                          handled, slept, output, pending, exitStatus>>]_vars

\* a run that appends after create raised "[ALREADYEXISTS]"
C7_Witness ==
    /\ createResult.kind = "IMAP4.error"
    /\ FailureSaysExists
    /\ createResult.data[1] # Lower(createResult.data[1])
    /\ Appends({"OK"}) # {}

\* C8: a create request that fails with a text that does not say the folder
\* exists aborts the run: the mbox file is never read and no append is ever
\* invoked.
C8_FatalProvisioning ==
    (createResult.kind \in {"NO", "IMAP4.error", "Exception"} /\ ~FailureSaysExists) =>
        /\ pc \in {"finally", "exited"}
        /\ ~LoopStarted
        /\ message_list = <<>>
        /\ appendLog = <<>>
        /\ "append" \notin {calls[k] : k \in 1..Len(calls)}

\* a run over a non-empty archive that ended on "does not exist"
C8_Witness ==
    /\ createResult.kind = "NO"
    /\ createResult.data[1] = TxtNoExist
    /\ Len(mbox) > 0
    /\ pc = "exited"

\* C9: when login returns a non-OK status or raises IMAP4.error, the run is
\* aborted before any create or append call, both counters stay 0, and the
\* exit status is non-zero.
C9_AuthFailure ==
    loginResult \in {"NO", "IMAP4.error"} =>
        /\ pc \in {"finally", "exited"}
        /\ \A k \in 1..Len(calls) : calls[k] \notin {"create", "append"}
        /\ appendLog = <<>>
        /\ uploaded_count = 0
        /\ error_count = 0
        /\ pc = "exited" => exitStatus = 1

\* a run over a non-empty archive that ended on a login that raised
C9_Witness ==
    /\ loginResult = "IMAP4.error"
    /\ Len(mbox) > 0
    /\ pc = "exited"

\* C10: when the transfer loop has completed, succeeded is the number of
\* appends that returned OK, failed is the number of appends that returned
\* NO plus the number of messages whose handling raised, and every message
\* of the archive is in exactly one of the two groups.
C10_ExactCounts ==
    LoopCompleted =>
        /\ uploaded_count = Cardinality(Appends({"OK"}))
        /\ error_count = Cardinality(Appends({"NO"}))
                          + Cardinality(Passes({"append raised", "as_bytes raised"}))
        /\ Len(handled) = Len(mbox)
        /\ Passes({"OK"}) \cup Passes({"NO", "append raised", "as_bytes raised"})
              = 1..Len(mbox)
        /\ Cardinality(Passes({"OK"})) = Cardinality(Appends({"OK"}))

\* a completed loop with one message accepted, one rejected and one raising
C10_Witness ==
    /\ LoopCompleted
    /\ Cardinality(Appends({"OK"})) = 1
    /\ Cardinality(Appends({"NO"})) = 1
    /\ Passes({"append raised", "as_bytes raised"}) # {}


\* C11: a message whose Date header is missing, empty or unparseable is
\* never held back by it: get_message_date gives None without raising, the
\* append is invoked for the message with no date (unless serialising the
\* message itself raised), and when the server accepts it the message is
\* counted as uploaded.
C11_DateNeverBlocks ==
    /\ \A m \in Messages :
          m.date \in {"missing", "empty", "unparseable"} => get_message_date(m) = "None"
    /\ \A k \in 1..Len(handled) :
          mbox[k].date \in {"missing", "empty", "unparseable"} =>
             /\ handled[k] # "date raised"
             /\ handled[k] # "as_bytes raised" =>
                   \E j \in 1..Len(appendLog) :
                      /\ appendLog[j].num = k
                      /\ appendLog[j].date = "None"
                      /\ appendLog[j].result = "OK" => handled[k] = "OK"
    /\ uploaded_count = Cardinality(Passes({"OK"}))

\* three messages uploaded, one with an unparseable and one with a good date
C11_Witness ==
    /\ LoopCompleted
    /\ uploaded_count = 3
    /\ error_count = 0
    /\ \E k \in 1..3 : mbox[k].date = "unparseable"
    /\ \E k \in 1..3 : mbox[k].date = "good"


\* C12 as claimed: after every append attempt, whether it returned OK,
\* returned NO or raised, the pacing delay is applied before the next
\* message is taken.
C12_PacingAfterEveryAttempt ==
    \A k \in 1..Len(handled) :
        handled[k] \in {"OK", "NO", "append raised"} => slept[k]

\* the run ended before the transfer loop was entered
AbortedBeforeLoop == pc = "exited" /\ ~LoopStarted

\* C13 as claimed: total is the archive size from the start of the run, and
\* a run that a fatal error aborts ends with succeeded + failed < total.
C13_ShortfallOnAbort ==
    (AbortedBeforeLoop /\ Len(mbox) > 0) =>
        /\ total_messages = Len(mbox)
        /\ uploaded_count + error_count < total_messages

\* C13 as amended: total is 0 until the mbox file has been read, which is
\* after login and provisioning, and the size of the archive from then on; a
\* run that a fatal setup error aborts ends with total = succeeded = failed
\* = 0, and no line reports a shortfall.
C13_TotalSetAfterSetup ==
    /\ total_messages = IF LoopStarted THEN Len(mbox) ELSE 0
    /\ AbortedBeforeLoop =>
          /\ total_messages = 0
          /\ uploaded_count = 0
          /\ error_count = 0
          /\ \A k \in 1..Len(output) : output[k].total = 0
          /\ Printed("summary") = {}

\* a run over three messages that ended on a fatal create failure
C13_Witness ==
    /\ AbortedBeforeLoop
    /\ Len(mbox) = 3
    /\ CreateFailed
    /\ ~FailureSaysExists

\* C14: a run that reaches the transfer loop ends with exit status 0,
\* however many messages failed, all of them included.
C14_ItemFailuresExitZero ==
    (pc = "exited" /\ LoopStarted) => exitStatus = 0

\* a finished run in which each of three messages failed, in all three ways
C14_Witness ==
    /\ pc = "exited"
    /\ LoopStarted
    /\ Len(mbox) = 3
    /\ error_count = 3
    /\ Passes({"NO"}) # {}
    /\ Passes({"append raised"}) # {}
    /\ Passes({"as_bytes raised"}) # {}

\* C15: append is invoked at most once for every message, whatever came
\* back; a failed message is counted once and the loop moves on.
C15_NoRetries ==
    /\ \A n \in 1..Len(mbox) :
          Cardinality({k \in 1..Len(appendLog) : appendLog[k].num = n}) <= 1
    /\ Len(appendLog) <= Len(handled)
    /\ Len(handled) = i
    /\ i <= Len(mbox)
    /\ error_count = Len(handled) - Cardinality(Passes({"OK"}))

\* a completed loop whose first append raised and whose second was rejected
C15_Witness ==
    /\ LoopCompleted
    /\ Len(handled) = 3
    /\ handled[1] = "append raised"
    /\ handled[2] = "NO"
    /\ Len(appendLog) = 3

\* the places in calls where a primitive was invoked
CallsOf(what) == {k \in 1..Len(calls) : calls[k] = what}

\* C16: create is issued at most once in a run, and every append comes after
\* it, the create having come back OK or with a failure that says "exists".
C16_ProvisionOnceAndFirst ==
    /\ Cardinality(CallsOf("create")) <= 1
    /\ CallsOf("append") # {} =>
          /\ createResult.kind = "OK" \/ (CreateFailed /\ FailureSaysExists)
          /\ \A a \in CallsOf("append") : \E c \in CallsOf("create") : c < a

\* appends after a create that came back OK
C16_Witness ==
    /\ createResult.kind = "OK"
    /\ Cardinality(CallsOf("append")) = 3
    /\ Cardinality(CallsOf("create")) = 1


\* the exit status that the sys.exit(1) calls of the run ask for
StatusAskedFor ==
    IF Printed("login failed") \cup Printed("create failed") # {} THEN 1 ELSE 0

\* C18: an exception out of logout is printed and changes nothing else: the
\* counters are those the summary reported (0 when the run never got to
\* count), and the exit status is the one the run had asked for.
C18_CleanupContained ==
    logoutResult = "Exception" =>
        /\ pc = "exited"
        /\ Printed("logout error") # {}
        /\ exitStatus = StatusAskedFor
        /\ \A k \in Printed("summary") :
              /\ output[k].uploaded = uploaded_count
              /\ output[k].errors = error_count
        /\ uploaded_count = Cardinality(Passes({"OK"}))
        /\ error_count = Len(handled) - Cardinality(Passes({"OK"}))

\* logout raised after a completed loop with successes and failures
C18_Witness ==
    /\ logoutResult = "Exception"
    /\ LoopCompleted
    /\ uploaded_count > 0
    /\ error_count > 0
    /\ exitStatus = 0

\* C19 as claimed: every append carries the bytes of its message exactly as
\* they stand in the mbox file, and no flags.
C19_PayloadFidelity ==
    \A k \in 1..Len(appendLog) :
        /\ appendLog[k].bytes = mbox[appendLog[k].num].payload
        /\ appendLog[k].flags = "None"

\* the order in which the session primitives may come
Rank(what) ==
    CASE what = "connect" -> 1
      [] what = "login" -> 2
      [] what = "create" -> 3
      [] what = "append" -> 4
      [] what = "logout" -> 5

\* C20: the session primitives come in the order connect, login, create,
\* appends, logout; connect, login, create and logout at most once each and
\* none without the one before it; create only after login returned OK; the
\* mbox file is read only after provisioning succeeded; nothing after
\* logout; no second connect after a fault of a message.
C20_SessionOrder ==
    /\ calls # <<>> => calls[1] = "connect"
    /\ \A k \in 1..(Len(calls) - 1) :
          /\ \/ Rank(calls[k]) < Rank(calls[k + 1])
             \/ calls[k] = "append" /\ calls[k + 1] = "append"
          /\ calls[k + 1] # "logout" => Rank(calls[k + 1]) <= Rank(calls[k]) + 1
    /\ CallsOf("logout") # {} => server
    /\ CallsOf("create") # {} => loginResult = "OK"
    /\ (LoopStarted \/ message_list # <<>>) =>
          /\ CallsOf("create") # {}
          /\ createResult.kind = "OK" \/ (CreateFailed /\ FailureSaysExists)
    /\ Passes({"append raised", "NO", "as_bytes raised"}) # {} =>
          Cardinality(CallsOf("connect")) = 1

\* a finished run: connect, login, create, three appends with faults, logout
C20_Witness ==
    /\ pc = "exited"
    /\ Len(calls) = 7
    /\ calls[7] = "logout"
    /\ Passes({"append raised"}) # {}


\* uploaded_count as it stands after the pass for message n
UploadedAfter(n) == Cardinality({k \in 1..n : handled[k] = "OK"})

\* the progress lines printed for message n
ProgressFor(n) == {k \in Printed("progress") : output[k].num = n}

\* C17: a progress line is printed for a message exactly when its append
\* returned OK and either the count of uploaded messages it brought about
\* is a multiple of the progress interval or the message is the last of
\* the archive; the line shows that count; no progress line is printed for
\* a message that failed.
C17_ProgressRule ==
    \A n \in 1..Len(handled) :
        /\ ProgressFor(n) # {} <=>
              /\ handled[n] = "OK"
              /\ \/ UploadedAfter(n) % PROGRESS_INTERVAL = 0
                 \/ n = Len(mbox)
        /\ Cardinality(ProgressFor(n)) <= 1
        /\ \A k \in ProgressFor(n) : output[k].uploaded = UploadedAfter(n)

\* a progress line at a multiple of the interval for a message that is not
\* the last, no line for the failed message after it
C17_Witness ==
    /\ \E k \in Printed("progress") :
          /\ output[k].uploaded = PROGRESS_INTERVAL
          /\ output[k].num < Len(mbox)
    /\ Len(handled) = Len(mbox)
    /\ handled[Len(handled)] = "NO"
    /\ ProgressFor(Len(mbox)) = {}

====
